---- MODULE Spec2Model ----
(***************************************************************************)
(* Model of src/app.py: a fake broadcast-TV scheduler.  Playlists are      *)
(* built once at import time from directory listings (build_playlist),     *)
(* durations are resolved through an lru_cache'd ffprobe call              *)
(* (get_duration), and get_now_playing maps the wall clock onto a          *)
(* position in the looping playlist.                                       *)
(*                                                                         *)
(* Time and durations are fixed-point numbers: one unit ("tick") is        *)
(* 1/Scale of a second, so that Python floats with a fractional part and   *)
(* the int() truncations of the code can be told apart.                    *)
(***************************************************************************)
EXTENDS Integers, Sequences, FiniteSets, TLC

VARIABLES
    dirs,        \* the file system: folder -> [exists, names]
    probeOut,    \* what ffprobe does for each path (fixed per file)
    CHANNELS,    \* config["channels"], a sequence of channel records
    rng,         \* the stream random.Random(md5(seed)) yields, per seed
    PLAYLISTS,   \* the PLAYLISTS dict: channel id -> sequence of paths
    boot,        \* number of channels the start-up loop has built
    cache,       \* lru_cache of get_duration: <<path, value>>, oldest first
    lastCall,    \* ghost: <<path, value>> of the get_duration call that returned last
    resolved,    \* ghost: ids of the channels a get_now_playing call has resolved
                 \* every duration of
    thr          \* request threads: position and locals of each

vars == <<dirs, probeOut, CHANNELS, rng, PLAYLISTS, boot, cache, lastCall, resolved, thr>>

-----------------------------------------------------------------------------
(* Bounds and program constants *)

Scale == 2          \* ticks per second
MaxT == 9           \* largest clock reading tried, in ticks after START_TIME
NThreads == 2       \* request threads of the concurrent specification
CacheSize == 2      \* capacity of the duration cache (maxsize=256 scaled down
                    \* so that the playlists of the model can overflow it)
MaxRaw == 2         \* largest raw value of a seeded generator draw

START_TIME == 0     \* the clock of the model counts ticks since START_TIME
FallbackSeconds == 1320

Fallback == FallbackSeconds * Scale

-----------------------------------------------------------------------------
(* File names and paths.  A name is <<leading blank?, stem, extension>>,   *)
(* a path is <<folder, leading blank?, stem, extension>>.                  *)

(* Stems stand for the letters a, b, c; the extensions used are mp4, MKV, *)
(* avi and txt; "commercials" is media/commercials.                        *)

Folders == {"d1", "d2", "commercials"}
NoFile == <<"", FALSE, 0, "">>

VALID_EXTS == {"mp4", "m4v", "mov", "avi", "mkv"}

Lower(e) == IF e = "MKV" THEN "mkv" ELSE e

\* f.lower().endswith(VALID_EXTS); a name with a trailing blank would not
\* match and behaves like one with another extension
HasValidExt(n) == Lower(n[3]) \in VALID_EXTS

Strip(n) == <<FALSE, n[2], n[3]>>

Join(d, n) == <<d, n[1], n[2], n[3]>>

NameOf(p) == <<p[2], p[3], p[4]>>

\* rank of an extension in string order (upper case sorts before lower case)
ExtRank(e) == CASE e = "MKV" -> 0 [] e = "avi" -> 1 [] e = "mp4" -> 2 [] OTHER -> 3

\* string order of names: a leading blank sorts before any letter
NameKey(n) == (IF n[1] THEN 0 ELSE 100) + 10 * n[2] + ExtRank(n[3])

FolderRank(d) == CASE d = "commercials" -> 0 [] d = "d1" -> 1 [] OTHER -> 2

PathKey(p) == 1000 * FolderRank(p[1]) + NameKey(NameOf(p))

-----------------------------------------------------------------------------
(* Python helpers *)

\* int(x): truncation toward zero, here of a tick count to whole seconds
\* (the result is again in ticks)
PyInt(x) == IF x >= 0 THEN (x \div Scale) * Scale ELSE -(((-x) \div Scale) * Scale)

\* mutant: the modulo forgotten
PyModForgotten(a, b) == a

\* a % b for b # 0: the result has the sign of b
PyMod(a, b) == IF b > 0 THEN a % b ELSE -((-a) % (-b))

RECURSIVE SumSeq(_)
SumSeq(s) == IF s = <<>> THEN 0 ELSE Head(s) + SumSeq(Tail(s))

RECURSIVE InsertPath(_, _)
InsertPath(x, s) ==
    IF s = <<>> THEN <<x>>
    ELSE IF PathKey(x) < PathKey(Head(s)) THEN <<x>> \o s
    ELSE <<Head(s)>> \o InsertPath(x, Tail(s))

\* sorted(s) of a list of paths (stable)
RECURSIVE SortedPaths(_)
SortedPaths(s) ==
    IF s = <<>> THEN <<>>
    ELSE InsertPath(s[Len(s)], SortedPaths(SubSeq(s, 1, Len(s) - 1)))

\* sorted(S) of a set of names
RECURSIVE SortedNames(_)
SortedNames(S) ==
    IF S = {} THEN <<>>
    ELSE LET m == CHOOSE x \in S : \A y \in S : NameKey(x) <= NameKey(y)
         IN <<m>> \o SortedNames(S \ {m})

Range(s) == {s[k] : k \in 1..Len(s)}

\* mutant: half of the exchange, x[a] = x[b] alone
SwapOverwrite(x, a, b) == [x EXCEPT ![a] = x[b]]

Swap(x, a, b) == [x EXCEPT ![a] = x[b], ![b] = x[a]]

-----------------------------------------------------------------------------
(* Directory scan, shuffle and playlist build *)

\* mutant: the extension filter left out
get_channel_files_unfiltered(channel) ==
    IF ~dirs[channel.path].exists THEN <<>>
    ELSE LET listing == SortedNames(dirs[channel.path].names)
         IN [k \in 1..Len(listing) |-> Join(channel.path, Strip(listing[k]))]

\* get_channel_files(channel): [] for a missing folder, else the valid
\* names in sorted order, each stripped and joined to the folder
get_channel_files(channel) ==
    IF ~dirs[channel.path].exists THEN <<>>
    ELSE LET listing == SortedNames(dirs[channel.path].names)
             kept == SelectSeq(listing, HasValidExt)
         IN [k \in 1..Len(kept) |-> Join(channel.path, Strip(kept[k]))]

\* random.shuffle: for i in reversed(range(1, len(x))): j = randbelow(i+1);
\* x[i], x[j] = x[j], x[i].  pos is i+1, k counts the draws made so far;
\* randbelow is modelled as the raw draw reduced modulo its range.
RECURSIVE ShuffleFrom(_, _, _, _)
ShuffleFrom(x, pos, stream, k) ==
    IF pos < 2 THEN x
    ELSE LET j == (stream[k] % pos) + 1
         IN ShuffleFrom(Swap(x, pos, j), pos - 1, stream, k + 1)

\* stable_shuffle(files, seed): a copy of files shuffled by the generator
\* the seed determines
stable_shuffle(files, seed) == ShuffleFrom(files, Len(files), rng[seed], 1)

\* the two lists a stable_shuffle call leaves behind: shuffled = files[:]
\* is a new list, and rng.shuffle(shuffled) works on that one alone
stable_shuffle_lists(files, seed) ==
    [files |-> files, shuffled |-> stable_shuffle(files, seed)]

\* mutant: the flag ignored, filler always on
CommercialsOnIfPresent(channel) == TRUE

\* channel.get("commercials", True)
CommercialsOn(channel) == channel.commercials \in {"absent", "true"}

\* the commercials list of build_playlist: valid names of the shared
\* folder, joined unstripped, in listing order
CommercialList ==
    IF ~dirs["commercials"].exists THEN <<>>
    ELSE LET listing == SortedNames(dirs["commercials"].names)
             kept == SelectSeq(listing, HasValidExt)
         IN [k \in 1..Len(kept) |-> Join("commercials", kept[k])]

Min(a, b) == IF a < b THEN a ELSE b

\* random.sample(commercials, k): every sequence of k distinct commercials
Samples(commercials, k) ==
    LET n == Len(commercials)
    IN CASE k = 0 -> {<<>>}
         [] k = 1 -> {<<commercials[a]>> : a \in 1..n}
         [] OTHER -> {<<commercials[a], commercials[b]>> :
                          a \in 1..n, b \in 1..n} \ {<<commercials[a], commercials[a]>> : a \in 1..n}

\* mutant: drawn with replacement, a clip can come twice in one break
AdBreaksWithReplacement(commercials) ==
    LET n == Len(commercials)
    IN {<<>>} \cup {<<commercials[a]>> : a \in 1..n}
          \cup {<<commercials[a], commercials[b]>> : a \in 1..n, b \in 1..n}

\* num_ads = random.randint(0, 2);
\* chosen_ads = random.sample(commercials, k=min(num_ads, len(commercials)))
AdBreaks(commercials) ==
    UNION {Samples(commercials, Min(num_ads, Len(commercials))) : num_ads \in 0..2}

\* the ordered main files of build_playlist (steps 1 and 2)
OrderedFiles(channel) ==
    LET files == get_channel_files(channel)
    IN IF channel.rotation = "random"
       THEN stable_shuffle(files, channel.id)
       ELSE SortedPaths(files)

\* step 4: each episode followed by its chosen ads
RECURSIVE Interleave(_, _, _)
Interleave(files, ads, k) ==
    IF k > Len(files) THEN <<>>
    ELSE <<files[k]>> \o ads[k] \o Interleave(files, ads, k + 1)

\* build_playlist(channel); ads[k] is the sample drawn after episode k
build_playlist(channel, ads) ==
    LET files == OrderedFiles(channel)
    IN IF CommercialsOn(channel)
       THEN IF CommercialList # <<>> THEN Interleave(files, ads, 1) ELSE files
       ELSE files

\* the draws build_playlist can make for a channel
AdChoices(channel) ==
    IF CommercialsOn(channel) /\ CommercialList # <<>>
    THEN [1..Len(OrderedFiles(channel)) -> AdBreaks(CommercialList)]
    ELSE {[k \in 1..Len(OrderedFiles(channel)) |-> <<>>]}

\* mutant: the loop builds the first channel again and again
LoopChannelFirst == CHANNELS[1]

\* the channel the start-up loop has reached
LoopChannel == CHANNELS[boot + 1]

\* for ch in CHANNELS: PLAYLISTS[ch["id"]] = build_playlist(ch)
Startup ==
    /\ boot < Len(CHANNELS)
    /\ LET ch == LoopChannel
       IN \E ads \in AdChoices(ch) :
            PLAYLISTS' = (ch.id :> build_playlist(ch, ads)) @@ PLAYLISTS
    /\ boot' = boot + 1
    /\ UNCHANGED <<dirs, probeOut, CHANNELS, rng, cache, lastCall, resolved, thr>>

Booted == boot = Len(CHANNELS)

\* PLAYLISTS.get(id, [])
PlaylistsGet(id) == IF id \in DOMAIN PLAYLISTS THEN PLAYLISTS[id] ELSE <<>>

-----------------------------------------------------------------------------
(* get_duration: the lru_cache wrapper and the ffprobe call *)

CacheKeys == {cache[k][1] : k \in 1..Len(cache)}

CacheIndex(p) == CHOOSE k \in 1..Len(cache) : cache[k][1] = p

\* mutant: a hit answers with the newest entry, whatever its key
CacheValueNewest(p) == cache[Len(cache)][2]

CacheValue(p) == cache[CacheIndex(p)][2]

\* mutant: a hit leaves the order alone (first in, first out)
CacheTouchFifo(p) == cache

\* mutant: a hit takes the entry out of the cache
CacheTouchDrops(p) ==
    LET k == CacheIndex(p)
    IN SubSeq(cache, 1, k - 1) \o SubSeq(cache, k + 1, Len(cache))

\* a hit moves the entry to the most recently used end
CacheTouch(p) ==
    LET k == CacheIndex(p)
    IN SubSeq(cache, 1, k - 1) \o SubSeq(cache, k + 1, Len(cache)) \o <<cache[k]>>

\* mutant: the result of a miss stored without a look for the key
CacheInsertUnchecked(p, v) ==
    IF Len(cache) >= CacheSize THEN Append(Tail(cache), <<p, v>>)
    ELSE Append(cache, <<p, v>>)

\* mutant: the result of a miss is never stored
CacheInsertDropped(p, v) == cache

\* after a miss: nothing if the key was added meanwhile, else the oldest
\* entry makes room when the cache is full
CacheInsert(p, v) ==
    IF p \in CacheKeys THEN cache
    ELSE IF Len(cache) >= CacheSize THEN Append(Tail(cache), <<p, v>>)
    ELSE Append(cache, <<p, v>>)

\* the body of get_duration: float(result.stdout.strip()), and the
\* fallback for anything that raises inside the try
ProbeValue(p) ==
    LET o == probeOut[p]
    IN IF o.out = "num" THEN o.v ELSE Fallback

-----------------------------------------------------------------------------
(* get_now_playing *)

NoRes ==
    [kind |-> "none", file |-> NoFile, idx |-> 0, offset |-> 0, next |-> NoFile,
     until |-> 0, start |-> -1, t |-> 0, val |-> 0]

\* return None, 0, None, None
NothingPlaying == [NoRes EXCEPT !.kind = "nothing"]

\* time.strftime("%-I:%M%p", time.localtime(x)): the minute of the day
StrfTime(x) == ((x \div Scale) \div 60) % 1440

\* mutant: <= where the loop compares with <
RECURSIVE WalkIndexLe(_, _, _)
WalkIndexLe(durations, i, offset) ==
    IF i > Len(durations) THEN 0
    ELSE IF offset <= durations[i] THEN i
    ELSE WalkIndexLe(durations, i + 1, offset - durations[i])

\* the for loop over enumerate(durations): the first index whose duration
\* exceeds what is left of offset, or 0 when the loop runs out
RECURSIVE WalkIndex(_, _, _)
WalkIndex(durations, i, offset) ==
    IF i > Len(durations) THEN 0
    ELSE IF offset < durations[i] THEN i
    ELSE WalkIndex(durations, i + 1, offset - durations[i])

\* mutant: the durations passed over are not taken off
WalkOffsetForgotten(durations, i, elapsed) == elapsed

\* offset when the loop reaches index i
WalkOffset(durations, i, elapsed) == elapsed - SumSeq(SubSeq(durations, 1, i - 1))

\* mutant: no wrap from the last entry to the first
NextFileNoWrap(files, i) == IF i < Len(files) THEN files[i + 1] ELSE files[i]

\* next_file for the entry at index i (1-based)
NextFile(files, i) ==
    IF Len(files) > 1 THEN files[(i % Len(files)) + 1] ELSE files[i]

\* lines 162-199 for resolved durations; t and t2 are the two readings
\* of time.time()
Schedule(files, durations, t, t2) ==
    LET total == SumSeq(durations)
    IN IF PyInt(total) = 0
       THEN [NoRes EXCEPT !.kind = "ZeroDivisionError", !.t = t]
       ELSE LET elapsed == PyMod(PyInt(t - START_TIME), PyInt(total))
                i == WalkIndex(durations, 1, elapsed)
            IN IF i = 0
               THEN [NoRes EXCEPT !.kind = "fallthrough", !.file = files[1],
                                  !.next = files[1], !.t = t]
               ELSE LET offset == WalkOffset(durations, i, elapsed)
                        time_until_next == durations[i] - offset
                    IN [kind |-> "playing", file |-> files[i], idx |-> i,
                        offset |-> PyInt(offset), next |-> NextFile(files, i),
                        until |-> time_until_next,
                        start |-> StrfTime(t2 + time_until_next), t |-> t, val |-> 0]

-----------------------------------------------------------------------------
(* Request threads *)

\* probes is a ghost: the ffprobe runs this call has made; warm is a
\* ghost: the channel was resolved when this call began; out is the list
\* a stable_shuffle call returned
Idle ==
    [pc |-> "idle", op |-> "none", ch |-> "", files |-> <<>>, durs |-> <<>>,
     probes |-> 0, warm |-> FALSE, res |-> NoRes, out |-> <<>>]

Times == (0..MaxT) \cup {Fallback - 1, Fallback, Fallback + 1}

\* where a thread goes once the duration of its current file is known
AfterDuration(th, d) ==
    LET me == thr[th]
        ds == Append(me.durs, d)
    IN IF Len(ds) < Len(me.files) THEN [me EXCEPT !.pc = "lookup", !.durs = ds]
       ELSE IF me.op = "now" THEN [me EXCEPT !.pc = "walk", !.durs = ds]
       ELSE [me EXCEPT !.pc = "done", !.durs = ds,
                       !.res = [NoRes EXCEPT !.kind = "duration", !.val = d]]

CurrentPath(th) == thr[th].files[Len(thr[th].durs) + 1]

\* resolved once the get_duration call that returns d has returned
ResolvedAfter(th, d) ==
    IF AfterDuration(th, d).pc = "walk" THEN resolved \cup {thr[th].ch} ELSE resolved

\* get_now_playing(channel), lines 156-158
CallNowPlaying(th, c) ==
    /\ Booted
    /\ thr[th].pc = "idle"
    /\ LET files == PlaylistsGet(CHANNELS[c].id)
       IN thr' = [thr EXCEPT ![th] =
                    IF files = <<>>
                    THEN [Idle EXCEPT !.pc = "done", !.op = "now", !.ch = CHANNELS[c].id,
                                      !.res = NothingPlaying]
                    ELSE [Idle EXCEPT !.pc = "lookup", !.op = "now", !.ch = CHANNELS[c].id,
                                      !.files = files,
                                      !.warm = CHANNELS[c].id \in resolved]]
    /\ UNCHANGED <<dirs, probeOut, CHANNELS, rng, PLAYLISTS, boot, cache, lastCall, resolved>>

\* get_duration(f) as the route handlers call it, on a playlist file
CallGetDuration(th, p) ==
    /\ Booted
    /\ thr[th].pc = "idle"
    /\ thr' = [thr EXCEPT ![th] = [Idle EXCEPT !.pc = "lookup", !.op = "dur", !.files = <<p>>]]
    /\ UNCHANGED <<dirs, probeOut, CHANNELS, rng, PLAYLISTS, boot, cache, lastCall, resolved>>

\* the cache lookup of the lru_cache wrapper, under its lock
Lookup(th) ==
    /\ thr[th].pc = "lookup"
    /\ LET p == CurrentPath(th)
       IN IF p \in CacheKeys
          THEN /\ cache' = CacheTouch(p)
               /\ lastCall' = <<p, CacheValue(p)>>
               /\ thr' = [thr EXCEPT ![th] = AfterDuration(th, CacheValue(p))]
               /\ resolved' = ResolvedAfter(th, CacheValue(p))
          ELSE /\ thr' = [thr EXCEPT ![th].pc = "probe"]
               /\ UNCHANGED <<cache, lastCall, resolved>>
    /\ UNCHANGED <<dirs, probeOut, CHANNELS, rng, PLAYLISTS, boot>>

\* subprocess.run has no timeout: it returns when ffprobe exits
ProbeExits(p) == probeOut[p].out # "hang"

\* a miss: run ffprobe outside the lock, then store the result under it
Probe(th) ==
    /\ thr[th].pc = "probe"
    /\ ProbeExits(CurrentPath(th))
    /\ LET p == CurrentPath(th)
           v == ProbeValue(p)
       IN /\ cache' = CacheInsert(p, v)
          /\ lastCall' = <<p, v>>
          /\ thr' = [thr EXCEPT ![th] = [AfterDuration(th, v) EXCEPT !.probes = @ + 1]]
          /\ resolved' = ResolvedAfter(th, v)
    /\ UNCHANGED <<dirs, probeOut, CHANNELS, rng, PLAYLISTS, boot>>

\* lines 162-199, the clock read at one of the instants T
Walk(th, T) ==
    /\ thr[th].pc = "walk"
    /\ \E t \in T, dt \in 0..1 :
         thr' = [thr EXCEPT ![th].pc = "done",
                            ![th].res = Schedule(thr[th].files, thr[th].durs, t, t + dt)]
    /\ UNCHANGED <<dirs, probeOut, CHANNELS, rng, PLAYLISTS, boot, cache, lastCall, resolved>>

\* the handler is over
Return(th) ==
    /\ thr[th].pc = "done"
    /\ thr' = [thr EXCEPT ![th] = Idle]
    /\ UNCHANGED <<dirs, probeOut, CHANNELS, rng, PLAYLISTS, boot, cache, lastCall, resolved>>

\* a caller hands its list and a seed to stable_shuffle
CallStableShuffle(th, files, seed) ==
    /\ thr[th].pc = "idle"
    /\ thr' = [thr EXCEPT ![th] = [Idle EXCEPT !.pc = "shuffle", !.op = "shuffle",
                                                !.ch = seed, !.files = files]]
    /\ UNCHANGED <<dirs, probeOut, CHANNELS, rng, PLAYLISTS, boot, cache, lastCall, resolved>>

\* stable_shuffle, lines 85-92: files is the caller's list after the call
RunStableShuffle(th) ==
    /\ thr[th].pc = "shuffle"
    /\ LET after == stable_shuffle_lists(thr[th].files, thr[th].ch)
       IN thr' = [thr EXCEPT ![th].pc = "done", ![th].files = after.files,
                             ![th].out = after.shuffled]
    /\ UNCHANGED <<dirs, probeOut, CHANNELS, rng, PLAYLISTS, boot, cache, lastCall, resolved>>

\* get_file_metadata(filepath): the "format" record ffprobe prints, or {}
\* when it fails; nothing is cached
get_file_metadata(p) ==
    [NoRes EXCEPT !.kind = IF probeOut[p].out = "num" THEN "metadata" ELSE "empty",
                  !.file = p]

CallFileMetadata(th, p) ==
    /\ Booted
    /\ thr[th].pc = "idle"
    /\ ProbeExits(p)
    /\ thr' = [thr EXCEPT ![th] = [Idle EXCEPT !.pc = "done", !.op = "meta",
                                                !.res = get_file_metadata(p)]]
    /\ UNCHANGED <<dirs, probeOut, CHANNELS, rng, PLAYLISTS, boot, cache, lastCall, resolved>>

\* get_next_show(channel, current_file): the file after current_file in a
\* fresh scan of the folder, the first file when it is not there, None
\* for an empty scan
get_next_show(channel, current_file) ==
    LET files == get_channel_files(channel)
    IN IF files = <<>> THEN NoFile
       ELSE IF current_file \in Range(files)
            THEN LET idx == CHOOSE k \in 1..Len(files) :
                               /\ files[k] = current_file
                               /\ \A j \in 1..(k - 1) : files[j] # current_file
                 IN files[(idx % Len(files)) + 1]
            ELSE files[1]

CallNextShow(th, c, current_file) ==
    /\ Booted
    /\ thr[th].pc = "idle"
    /\ thr' = [thr EXCEPT ![th] =
                 [Idle EXCEPT !.pc = "done", !.op = "next", !.ch = CHANNELS[c].id,
                              !.res = [NoRes EXCEPT !.kind = "next",
                                          !.next = get_next_show(CHANNELS[c], current_file)]]]
    /\ UNCHANGED <<dirs, probeOut, CHANNELS, rng, PLAYLISTS, boot, cache, lastCall, resolved>>

PlaylistPaths == UNION {Range(PLAYLISTS[id]) : id \in DOMAIN PLAYLISTS}

-----------------------------------------------------------------------------
(* Initial states and specifications *)

\* what ffprobe can do for a file: fail to start, print nothing (an error
\* goes to stderr), print text that is no number, print a number, or
\* never exit
RaiseOut == [out |-> "raise", v |-> 0]
HangOut == [out |-> "hang", v |-> 0]
EmptyOut == [out |-> "empty", v |-> 0]
TextOut == [out |-> "text", v |-> 0]
Num(v) == [out |-> "num", v |-> v]

\* the paths a run can touch: the listed files and their stripped forms
Relevant(d) ==
    UNION {{Join(f, n) : n \in d[f].names} \cup {Join(f, Strip(n)) : n \in d[f].names} :
               f \in Folders}

ExistsIn(d, p) == d[p[1]].exists /\ NameOf(p) \in d[p[1]].names

\* ffprobe per path: files of folder richDir draw from Rich, other files
\* from Plain, and a path that names no file prints nothing
ProbeWorlds(d, richDir, Rich, Plain) ==
    {f \in [Relevant(d) -> Rich \cup Plain \cup {EmptyOut}] :
        \A p \in Relevant(d) :
            f[p] \in (IF ~ExistsIn(d, p) THEN {EmptyOut}
                      ELSE IF p[1] = richDir THEN Rich ELSE Plain)}

Dir(names) == [exists |-> TRUE, names |-> names]
NoDir == [exists |-> FALSE, names |-> {}]

Channel(id, path, rotation, commercials) ==
    [id |-> id, path |-> path, rotation |-> rotation, commercials |-> commercials]

ChannelIds == {"c1", "c2"}
Streams == [1..2 -> 0..MaxRaw]
ZeroStream == [k \in 1..2 |-> 0]

InitRest ==
    /\ PLAYLISTS = <<>>
    /\ boot = 0
    /\ cache = <<>>
    /\ lastCall = <<NoFile, 0>>
    /\ resolved = {}

\* no output, or a duration: minus one second, zero, a fraction of a
\* second, one second, two seconds
RichOutputs == {EmptyOut, Num(-Scale), Num(0), Num(1), Num(Scale), Num(2 * Scale)}

\* the other ways to fail, or a second and a fraction
PlainOutputs == {RaiseOut, TextOut, Num(Scale + 1)}

\* Scheduling: one request at a time, three episodes with any durations
\* on channel c1, one episode on c2, no commercials folder
Init ==
    /\ dirs = [f \in Folders |->
                 CASE f = "d1" -> Dir({<<FALSE, 1, "mp4">>, <<FALSE, 2, "MKV">>, <<FALSE, 3, "avi">>})
                   [] f = "d2" -> Dir({<<FALSE, 1, "mp4">>})
                   [] OTHER -> NoDir]
    /\ CHANNELS = <<Channel("c1", "d1", "sequential", "false"),
                    Channel("c2", "d2", "sequential", "absent")>>
    /\ rng = [id \in ChannelIds |-> ZeroStream]
    /\ probeOut \in ProbeWorlds(dirs, "d1", RichOutputs, PlainOutputs)
    /\ thr = [th \in {1} |-> Idle]
    /\ InitRest

Next ==
    \/ Startup
    \/ \E th \in DOMAIN thr :
         \/ \E c \in 1..Len(CHANNELS) : CallNowPlaying(th, c)
         \/ \E p \in PlaylistPaths : CallGetDuration(th, p)
         \/ Lookup(th)
         \/ Probe(th)
         \/ Walk(th, Times)
         \/ Return(th)

Spec == Init /\ [][Next]_vars

\* Concurrency: NThreads request threads, one or two episodes on c1 and
\* one on c2, sharing a cache that holds two of them
ConcTimes == {START_TIME, START_TIME + Scale + 1}

ConcListings ==
    {Dir({<<FALSE, 1, "mp4">>, <<FALSE, 2, "MKV">>}), Dir({<<FALSE, 2, "MKV">>})}

InitConc ==
    /\ \E l1 \in ConcListings :
          dirs = [f \in Folders |->
                    CASE f = "d1" -> l1
                      [] f = "d2" -> Dir({<<FALSE, 1, "mp4">>})
                      [] OTHER -> NoDir]
    /\ CHANNELS = <<Channel("c1", "d1", "sequential", "false"),
                    Channel("c2", "d2", "sequential", "absent")>>
    /\ rng = [id \in ChannelIds |-> ZeroStream]
    /\ probeOut \in ProbeWorlds(dirs, "d1", {EmptyOut, Num(1)}, {Num(Scale)})
    /\ thr = [th \in 1..NThreads |-> Idle]
    /\ InitRest

NextConc ==
    \/ Startup
    \/ \E th \in DOMAIN thr :
         \/ \E c \in 1..Len(CHANNELS) : CallNowPlaying(th, c)
         \/ Lookup(th)
         \/ Probe(th)
         \/ Walk(th, ConcTimes)
         \/ Return(th)

SpecConc == InitConc /\ [][NextConc]_vars

\* Playlist build: any listing of the folder of c1 (a.mp4, " a.mp4",
\* " b.MKV", c.txt), a commercials folder that is missing, without a
\* clip or with one clip, any ordering mode and filler setting of c1, any
\* generator stream; every file lasts one second
BuildNames == {<<FALSE, 1, "mp4">>, <<TRUE, 1, "mp4">>, <<TRUE, 2, "MKV">>, <<FALSE, 3, "txt">>}

FillerListings ==
    {NoDir, Dir({<<FALSE, 3, "txt">>}), Dir({<<FALSE, 1, "avi">>, <<FALSE, 3, "txt">>})}

InitBuild ==
    /\ \E l1 \in {NoDir} \cup {Dir(S) : S \in SUBSET BuildNames}, lc \in FillerListings :
          dirs = [f \in Folders |->
                    CASE f = "d1" -> l1
                      [] f = "d2" -> Dir({<<FALSE, 2, "mp4">>})
                      [] OTHER -> lc]
    /\ \E rot \in {"random", "sequential"}, com \in {"absent", "true", "false"} :
          CHANNELS = <<Channel("c1", "d1", rot, com),
                       Channel("c2", "d2", "sequential", "false")>>
    /\ \E st \in Streams :
          /\ CHANNELS[1].rotation # "random" => st = ZeroStream
          /\ rng = [id \in ChannelIds |-> IF id = "c1" THEN st ELSE ZeroStream]
    /\ probeOut \in ProbeWorlds(dirs, "d1", {Num(Scale)}, {Num(Scale)})
    /\ thr = [th \in {1} |-> Idle]
    /\ InitRest

NextBuild ==
    \/ Startup
    \/ \E th \in DOMAIN thr :
         \/ \E c \in 1..Len(CHANNELS) : CallNowPlaying(th, c)
         \/ \E p \in PlaylistPaths : CallFileMetadata(th, p)
         \/ \E c \in 1..Len(CHANNELS), p \in PlaylistPaths : CallNextShow(th, c, p)
         \/ Lookup(th)
         \/ Probe(th)
         \/ Walk(th, {START_TIME})
         \/ Return(th)

SpecBuild == InitBuild /\ [][NextBuild]_vars

\* Filler: two episodes on c1 (a.mp4 with " b.MKV", or a.mp4 with
\* " a.mp4", which strip to one path), filler on, a commercials folder of
\* one clip or of three clips and a text file, any ordering mode and
\* generator stream; every file lasts one second
MainListings ==
    {Dir({<<FALSE, 1, "mp4">>, <<TRUE, 2, "MKV">>}),
     Dir({<<FALSE, 1, "mp4">>, <<TRUE, 1, "mp4">>, <<FALSE, 3, "txt">>})}

PoolListings ==
    {Dir({<<FALSE, 1, "avi">>}),
     Dir({<<FALSE, 1, "avi">>, <<TRUE, 2, "mp4">>, <<FALSE, 3, "MKV">>, <<FALSE, 3, "txt">>})}

InitFiller ==
    /\ \E l1 \in MainListings, lc \in PoolListings :
          dirs = [f \in Folders |->
                    CASE f = "d1" -> l1
                      [] f = "d2" -> Dir({<<FALSE, 2, "mp4">>})
                      [] OTHER -> lc]
    /\ \E rot \in {"random", "sequential"}, com \in {"absent", "true"} :
          CHANNELS = <<Channel("c1", "d1", rot, com),
                       Channel("c2", "d2", "sequential", "false")>>
    /\ \E st \in Streams :
          /\ CHANNELS[1].rotation # "random" => st = ZeroStream
          /\ rng = [id \in ChannelIds |-> IF id = "c1" THEN st ELSE ZeroStream]
    /\ probeOut \in ProbeWorlds(dirs, "d1", {Num(Scale)}, {Num(Scale)})
    /\ thr = [th \in {1} |-> Idle]
    /\ InitRest

SpecFiller == InitFiller /\ [][NextBuild]_vars

\* Progress: one request at a time, two episodes on c1 for either of
\* which ffprobe may never exit, one episode on c2; every thread that can
\* take a step eventually takes one
InitLive ==
    /\ dirs = [f \in Folders |->
                 CASE f = "d1" -> Dir({<<FALSE, 1, "mp4">>, <<FALSE, 2, "MKV">>})
                   [] f = "d2" -> Dir({<<FALSE, 1, "mp4">>})
                   [] OTHER -> NoDir]
    /\ CHANNELS = <<Channel("c1", "d1", "sequential", "false"),
                    Channel("c2", "d2", "sequential", "absent")>>
    /\ rng = [id \in ChannelIds |-> ZeroStream]
    /\ probeOut \in ProbeWorlds(dirs, "d1", {HangOut, Num(Scale)}, {RaiseOut, Num(Scale)})
    /\ thr = [th \in {1} |-> Idle]
    /\ InitRest

\* a step of a handler that is under way
Proceed(th) == Lookup(th) \/ Probe(th) \/ Walk(th, ConcTimes) \/ Return(th)

NextLive ==
    \/ Startup
    \/ \E th \in DOMAIN thr :
         \/ \E c \in 1..Len(CHANNELS) : CallNowPlaying(th, c)
         \/ \E p \in PlaylistPaths : CallGetDuration(th, p)
         \/ Proceed(th)

SpecLive ==
    /\ InitLive
    /\ [][NextLive]_vars
    /\ WF_vars(Startup)
    /\ \A th \in {1} : WF_vars(Proceed(th))

\* Shuffle: two callers of stable_shuffle, lists of up to three paths
\* (one with a path twice), the seeds c1 and c2, any generator stream for
\* each seed
ShuffleLists ==
    LET a == <<"d1", FALSE, 1, "mp4">>
        b == <<"d1", FALSE, 2, "MKV">>
        c == <<"d1", FALSE, 3, "avi">>
    IN {<<>>, <<a>>, <<a, b>>, <<b, a>>, <<a, b, c>>, <<a, a, b>>}

InitShuffle ==
    /\ dirs = [f \in Folders |-> NoDir]
    /\ CHANNELS = <<>>
    /\ rng \in [ChannelIds -> Streams]
    /\ probeOut = <<>>
    /\ thr = [th \in {1, 2} |-> Idle]
    /\ InitRest

NextShuffle ==
    \E th \in DOMAIN thr :
        \/ \E files \in ShuffleLists, seed \in ChannelIds : CallStableShuffle(th, files, seed)
        \/ RunStableShuffle(th)
        \/ Return(th)

SpecShuffle == InitShuffle /\ [][NextShuffle]_vars

-----------------------------------------------------------------------------
(* Properties of the schedule, stated for Spec *)

\* a thread whose get_now_playing call on a non-empty playlist is over
Answered(th) == thr[th].pc = "done" /\ thr[th].op = "now" /\ thr[th].files # <<>>

Before(durations, i) == SumSeq(SubSeq(durations, 1, i - 1))

WholeSeconds(x) == x % Scale = 0

\* durations as the data model has them (no negative one), asked at a
\* whole second: the case every claim about the schedule covers
NonNegative(durations) == \A k \in 1..Len(durations) : durations[k] >= 0

Ordinary(th) == NonNegative(thr[th].durs) /\ WholeSeconds(thr[th].res.t)

\* C1 as stated: for a non-empty playlist of positive total duration one
\* file is current, 0 <= offset < duration(current), and the durations
\* before the current entry plus offset equal (t - START_TIME) mod total
\* (taken here on non-negative durations and whole-second t only)
C1_AsStated ==
    \A th \in DOMAIN thr :
        LET me == thr[th]
            r == me.res
            total == SumSeq(me.durs)
        IN (Answered(th) /\ Ordinary(th) /\ total > 0) =>
              /\ r.kind = "playing"
              /\ 0 <= r.offset /\ r.offset < me.durs[r.idx]
              /\ Before(me.durs, r.idx) + r.offset = (r.t - START_TIME) % total

\* C1 amended: for a non-empty playlist whose total duration is at least
\* one second, get_now_playing reports one current entry, its offset is a
\* whole number of seconds with 0 <= offset < duration(current), and the
\* durations before the current entry plus offset lie within one second
\* below elapsed = int(t - START_TIME) mod int(total):
\* before + offset <= elapsed < before + offset + 1
C1_OffsetWithinSecond ==
    \A th \in DOMAIN thr :
        LET me == thr[th]
            r == me.res
            total == SumSeq(me.durs)
            elapsed == PyInt(r.t - START_TIME) % PyInt(total)
        IN (Answered(th) /\ PyInt(total) >= Scale) =>
              /\ r.kind = "playing"
              /\ r.idx \in 1..Len(me.files)
              /\ r.file = me.files[r.idx]
              /\ WholeSeconds(r.offset)
              /\ 0 <= r.offset /\ r.offset < me.durs[r.idx]
              /\ Before(me.durs, r.idx) + r.offset <= elapsed
              /\ elapsed < Before(me.durs, r.idx) + r.offset + Scale

\* C1 witness: an answer in the middle of a later entry of a playlist
\* with a fractional duration, where the truncation shows
C1_Witness ==
    \E th \in DOMAIN thr :
        /\ Answered(th)
        /\ PyInt(SumSeq(thr[th].durs)) >= Scale
        /\ thr[th].res.kind = "playing"
        /\ thr[th].res.idx >= 2
        /\ thr[th].res.offset > 0
        /\ Before(thr[th].durs, thr[th].res.idx) + thr[th].res.offset
              < PyInt(thr[th].res.t - START_TIME) % PyInt(SumSeq(thr[th].durs))

\* what two answers are compared on: the outcome, the current file, the
\* offset and the next file
Answer(r) == <<r.kind, r.file, r.offset, r.next>>

\* C2 as stated: the answer at t equals the answer at t + total, total
\* being the sum of the durations (taken here on non-negative durations
\* only)
C2_AsStated ==
    \A th \in DOMAIN thr :
        LET me == thr[th]
            total == SumSeq(me.durs)
            later == me.res.t + total
        IN (Answered(th) /\ NonNegative(me.durs)) =>
              Answer(Schedule(me.files, me.durs, later, later)) = Answer(me.res)

\* C2 amended: the period is the total truncated to whole seconds: the
\* outcome at t (current file, offset and next file, or the error of a
\* total below one second) equals the outcome at t + int(total), for
\* instants not before START_TIME
C2_PeriodIsTruncatedTotal ==
    \A th \in DOMAIN thr :
        LET me == thr[th]
            later == me.res.t + PyInt(SumSeq(me.durs))
        IN (Answered(th) /\ later >= START_TIME) =>
              Answer(Schedule(me.files, me.durs, later, later)) = Answer(me.res)

\* C2 witness: an answer inside a playlist whose total has a fraction,
\* at a time one truncated period after which the clock has wrapped
C2_Witness ==
    \E th \in DOMAIN thr :
        /\ Answered(th)
        /\ thr[th].res.kind = "playing"
        /\ thr[th].res.idx >= 2
        /\ ~WholeSeconds(SumSeq(thr[th].durs))
        /\ thr[th].res.t >= PyInt(SumSeq(thr[th].durs))

\* C3: a non-empty playlist whose durations sum to zero gets the
\* nothing-playing result instead of a division by zero (taken here on
\* non-negative durations, so all of them zero)
C3_ZeroTotalIsNothingPlaying ==
    \A th \in DOMAIN thr :
        (Answered(th) /\ Ordinary(th) /\ SumSeq(thr[th].durs) = 0) =>
            thr[th].res.kind = "nothing"

\* the answer get_now_playing gives at the instant it announced for the
\* start of the next file
AtNextStart(th) ==
    LET at == thr[th].res.t + thr[th].res.until
    IN Schedule(thr[th].files, thr[th].durs, at, at)

\* C5 as stated: at nextStart = t + (duration(current) - offset) the
\* announced next file is current with offset 0 (taken here on
\* non-negative durations only)
C5_AsStated ==
    \A th \in DOMAIN thr :
        (Answered(th) /\ NonNegative(thr[th].durs) /\ thr[th].res.kind = "playing") =>
            /\ AtNextStart(th).kind = "playing"
            /\ AtNextStart(th).file = thr[th].res.next
            /\ AtNextStart(th).offset = 0

PositiveWhole(durations) ==
    \A k \in 1..Len(durations) : durations[k] > 0 /\ WholeSeconds(durations[k])

\* C5 amended: when every duration of the playlist is a positive whole
\* number of seconds, then at nextStart = t + (duration(current) - offset)
\* the entry after the current one (the first after the last) is current
\* with offset 0, and it is the file announced as next
C5_NextStartsOnTime ==
    \A th \in DOMAIN thr :
        (Answered(th) /\ PositiveWhole(thr[th].durs)) =>
            /\ thr[th].res.kind = "playing"
            /\ AtNextStart(th).kind = "playing"
            /\ AtNextStart(th).idx = (thr[th].res.idx % Len(thr[th].files)) + 1
            /\ AtNextStart(th).file = thr[th].res.next
            /\ AtNextStart(th).offset = 0

\* C5 witness: the last of several entries is current, part-way through
C5_Witness ==
    \E th \in DOMAIN thr :
        /\ Answered(th)
        /\ PositiveWhole(thr[th].durs)
        /\ Len(thr[th].files) >= 2
        /\ thr[th].res.idx = Len(thr[th].files)
        /\ thr[th].res.offset > 0

\* C6: the next file reported is the entry after the position of the
\* current one, the first entry after the last; with one entry it is the
\* current file.  The current entry of the loop's fallback return is the
\* first.
C6_NextFollowsCurrent ==
    \A th \in DOMAIN thr :
        LET me == thr[th]
            pos == IF me.res.kind = "playing" THEN me.res.idx ELSE 1
        IN (Answered(th) /\ me.res.kind \in {"playing", "fallthrough"}) =>
              /\ me.res.file = me.files[pos]
              /\ me.res.next = IF Len(me.files) = 1 THEN me.res.file
                               ELSE me.files[(pos % Len(me.files)) + 1]

\* C8: every value get_duration returns is the fallback when ffprobe is
\* missing, fails or prints no number, and is never negative
C8_FallbackOrNonNegative ==
    \A th \in DOMAIN thr :
        \A k \in 1..Len(thr[th].durs) :
            /\ probeOut[thr[th].files[k]].out # "num" => thr[th].durs[k] = Fallback
            /\ thr[th].durs[k] >= 0

\* a step in which a get_duration call of the thread returns
DurationReturns(th) ==
    /\ thr[th].pc \in {"lookup", "probe"}
    /\ Len(thr'[th].durs) = Len(thr[th].durs) + 1

\* C9: a get_duration call on the path of the call before it returns the
\* same value and runs no ffprobe
C9_SecondCallHitsCache ==
    [][\A th \in DOMAIN thr :
          (DurationReturns(th) /\ CurrentPath(th) = lastCall[1]) =>
              /\ thr'[th].durs[Len(thr'[th].durs)] = lastCall[2]
              /\ thr'[th].probes = thr[th].probes]_vars

\* C9 witness: a get_duration call has returned the fallback from the
\* cache without a run of ffprobe, and its path is the only one any call
\* has resolved so far
C9_Witness ==
    \E th \in DOMAIN thr :
        /\ thr[th].pc = "done"
        /\ thr[th].op = "dur"
        /\ thr[th].probes = 0
        /\ Len(cache) = 1
        /\ thr[th].res.val = Fallback
        /\ lastCall = <<thr[th].files[1], Fallback>>

\* the answer the call of th would give at instant t
At(th, t) == Schedule(thr[th].files, thr[th].durs, t, t)

\* the seconds of one loop of the playlist, counted from the instant of
\* the call
Window(th) ==
    {thr[th].res.t + k * Scale : k \in 0..((SumSeq(thr[th].durs) \div Scale) - 1)}

\* the seconds of the window at which entry i is current
SecondsOn(th, i) ==
    {t \in Window(th) : At(th, t).kind = "playing" /\ At(th, t).idx = i}

\* entry i is current for duration(i) seconds of the window, with the
\* offsets 0, 1, ..., duration(i) - 1
PlayedInFull(th, i) ==
    /\ Cardinality(SecondsOn(th, i)) * Scale = thr[th].durs[i]
    /\ {At(th, t).offset : t \in SecondsOn(th, i)} =
          {k * Scale : k \in 0..((thr[th].durs[i] \div Scale) - 1)}

\* C18 as stated: through a window of total consecutive seconds every
\* entry is current for duration(i) of the seconds, its offset counting
\* 0 to duration(i) - 1, and so every entry is played in the loop (taken
\* here on non-negative durations with a total of one second or more,
\* and on loops no longer than MaxT)
C18_AsStated ==
    \A th \in DOMAIN thr :
        (/\ Answered(th) /\ NonNegative(thr[th].durs)
         /\ PyInt(SumSeq(thr[th].durs)) >= Scale
         /\ SumSeq(thr[th].durs) <= MaxT) =>
            \A i \in 1..Len(thr[th].files) :
                PlayedInFull(th, i) /\ SecondsOn(th, i) # {}

\* one second after the answer the same entry is current one second
\* further in, or, the entry being over, the entry after it (the first
\* after the last) at offset 0
NextSecondFollows(th) ==
    LET r == thr[th].res
        n == At(th, r.t + Scale)
    IN /\ r.kind = "playing" /\ n.kind = "playing"
       /\ IF r.offset + Scale < thr[th].durs[r.idx]
          THEN n.idx = r.idx /\ n.offset = r.offset + Scale
          ELSE n.idx = (r.idx % Len(thr[th].files)) + 1 /\ n.offset = 0

\* C18 amended: when every duration of the playlist is a positive whole
\* number of seconds, playback follows the playlist order second by
\* second without skipping or repeating, and through any window of total
\* consecutive seconds each entry i is current for exactly duration(i)
\* seconds with offsets 0, 1, ..., duration(i) - 1 (the window counted
\* out on loops no longer than MaxT)
C18_LoopPlaysEveryEntryInOrder ==
    \A th \in DOMAIN thr :
        (Answered(th) /\ PositiveWhole(thr[th].durs)) =>
            /\ NextSecondFollows(th)
            /\ SumSeq(thr[th].durs) <= MaxT =>
                  \A i \in 1..Len(thr[th].files) :
                      PlayedInFull(th, i) /\ SecondsOn(th, i) # {}

\* C18 witness: the last of three entries lasts two seconds and is in its
\* last second, so that the next second wraps to the first entry; the
\* loop is short enough to be counted out
C18_Witness ==
    \E th \in DOMAIN thr :
        /\ Answered(th)
        /\ PositiveWhole(thr[th].durs)
        /\ SumSeq(thr[th].durs) <= MaxT
        /\ Len(thr[th].files) = 3
        /\ thr[th].res.idx = 3
        /\ thr[th].durs[3] = 2 * Scale
        /\ thr[th].res.offset = Scale

KeysOf(c) == {c[k][1] : k \in 1..Len(c)}

PosIn(c, x) == CHOOSE k \in 1..Len(c) : c[k][1] = x

\* at most CacheSize entries, at most one per path
CacheWellFormed ==
    /\ Len(cache) <= CacheSize
    /\ \A i, j \in 1..Len(cache) : cache[i][1] = cache[j][1] => i = j

\* what a returning get_duration(p) does to the cache: p becomes the
\* newest entry; the other entries that stay keep their order and values;
\* an entry leaves only when p is new and the cache is full, and then it
\* is the oldest one alone
UseKeepsLruOrder(p) ==
    LET gone == KeysOf(cache) \ KeysOf(cache')
        stay == KeysOf(cache') \ {p}
    IN /\ cache' # <<>> /\ cache'[Len(cache')][1] = p
       /\ stay \subseteq KeysOf(cache)
       /\ \A x \in stay :
             /\ cache'[PosIn(cache', x)] = cache[PosIn(cache, x)]
             /\ \A y \in stay :
                   PosIn(cache, x) < PosIn(cache, y) <=> PosIn(cache', x) < PosIn(cache', y)
       /\ gone = IF p \notin KeysOf(cache) /\ Len(cache) = CacheSize
                 THEN {cache[1][1]} ELSE {}

LruStep ==
    /\ \A th \in DOMAIN thr : DurationReturns(th) => UseKeepsLruOrder(CurrentPath(th))
    /\ (\A th \in DOMAIN thr : ~DurationReturns(th)) => cache' = cache

\* C15: after any sequence of get_duration calls the cache holds at most
\* CacheSize entries (the capacity, 256 in the program) and at most one
\* per path; the entries are kept in the order of their last hit or
\* insert, and a new path put into a full cache evicts the entry used
\* least recently and no other
C15_BoundedLruEviction == []CacheWellFormed /\ [][LruStep]_vars

\* C15 witness: a call on the three files of c1 found one of them in the
\* cache and ran ffprobe for the other two; the full cache ends with the
\* third file as its newest entry and without the first, which was
\* evicted as the oldest
C15_Witness ==
    \E th \in DOMAIN thr :
        /\ thr[th].op = "now" /\ thr[th].pc = "done"
        /\ Len(thr[th].files) = 3
        /\ thr[th].probes = 2
        /\ Len(cache) = CacheSize
        /\ cache[Len(cache)][1] = thr[th].files[3]
        /\ thr[th].files[1] \notin CacheKeys

-----------------------------------------------------------------------------
(* Properties of the playlist build, stated for SpecBuild and SpecFiller *)

ValidNames(channel) ==
    IF dirs[channel.path].exists
    THEN {n \in dirs[channel.path].names : HasValidExt(n)}
    ELSE {}

CountIn(s, x) == Cardinality({k \in 1..Len(s) : s[k] = x})

\* C4: a channel whose folder is missing or holds no whitelisted file has
\* an empty playlist whatever its filler setting and the commercials
\* folder, and each get_now_playing call for it returns the
\* nothing-playing result, having resolved no duration and run no ffprobe
C4_EmptySourceNothingPlaying ==
    \A c \in 1..Len(CHANNELS) :
        ValidNames(CHANNELS[c]) = {} =>
            /\ CHANNELS[c].id \in DOMAIN PLAYLISTS => PLAYLISTS[CHANNELS[c].id] = <<>>
            /\ \A th \in DOMAIN thr :
                 (thr[th].op = "now" /\ thr[th].ch = CHANNELS[c].id) =>
                    /\ thr[th].pc = "done"
                    /\ thr[th].res = NothingPlaying
                    /\ thr[th].durs = <<>>
                    /\ thr[th].probes = 0

\* C4 witness: the folder of c1 exists but holds no video, filler is on
\* and the commercials folder has clips, and a call for c1 has returned
C4_Witness ==
    /\ dirs["d1"].exists /\ dirs["d1"].names # {}
    /\ ValidNames(CHANNELS[1]) = {}
    /\ CommercialsOn(CHANNELS[1]) /\ CommercialList # <<>>
    /\ \E th \in DOMAIN thr : thr[th].op = "now" /\ thr[th].ch = "c1" /\ thr[th].pc = "done"

\* C10: with the filler flag false the playlist built has one entry per
\* main file and no other (none from the commercials folder), in path
\* order, or for rotation "random" in the order stable_shuffle gives the
\* scanned list
C10_NoFillerExactMainList ==
    \A c \in 1..Len(CHANNELS) :
        LET ch == CHANNELS[c]
            pl == PLAYLISTS[ch.id]
        IN (ch.commercials = "false" /\ ch.id \in DOMAIN PLAYLISTS) =>
              /\ Len(pl) = Cardinality(ValidNames(ch))
              /\ \A k \in 1..Len(pl) :
                    /\ pl[k][1] = ch.path
                    /\ CountIn(pl, pl[k]) =
                          Cardinality({n \in ValidNames(ch) : Join(ch.path, Strip(n)) = pl[k]})
              /\ \A n \in ValidNames(ch) : Join(ch.path, Strip(n)) \in Range(pl)
              /\ ch.rotation # "random" =>
                    \A k \in 1..(Len(pl) - 1) : PathKey(pl[k]) <= PathKey(pl[k + 1])
              /\ ch.rotation = "random" => pl = stable_shuffle(get_channel_files(ch), ch.id)

\* C10 witness: c1 has filler off and rotation "random", its playlist of
\* three entries is not in path order, and there are commercials to add
C10_Witness ==
    /\ "c1" \in DOMAIN PLAYLISTS
    /\ CHANNELS[1].commercials = "false"
    /\ CHANNELS[1].rotation = "random"
    /\ Len(PLAYLISTS["c1"]) = 3
    /\ PLAYLISTS["c1"] # SortedPaths(PLAYLISTS["c1"])
    /\ CommercialList # <<>>

\* a playlist entry that lies in the shared filler folder
IsFiller(p) == p[1] = "commercials"

NotFiller(p) == ~IsFiller(p)

\* the filler pool: the whitelisted files of the commercials folder
FillerPool ==
    IF dirs["commercials"].exists
    THEN {Join("commercials", n) : n \in {m \in dirs["commercials"].names : HasValidExt(m)}}
    ELSE {}

\* the positions of the filler entries that follow position k directly
BreakAfter(pl, k) ==
    {j \in (k + 1)..Len(pl) : \A i \in (k + 1)..j : IsFiller(pl[i])}

\* C11: with filler enabled and a non-empty filler pool the playlist built
\* is the ordered main-file list, each main entry once and in order, every
\* main entry followed by between 0 and min(2, |pool|) filler entries that
\* are in the pool and pairwise different within the break, so that
\* mainCount <= length <= 3 * mainCount
C11_FillerAfterEachMain ==
    \A c \in 1..Len(CHANNELS) :
        LET ch == CHANNELS[c]
            pl == PLAYLISTS[ch.id]
            main == OrderedFiles(ch)
        IN (CommercialsOn(ch) /\ FillerPool # {} /\ ch.id \in DOMAIN PLAYLISTS) =>
              /\ SelectSeq(pl, NotFiller) = main
              /\ pl # <<>> => NotFiller(pl[1])
              /\ \A k \in 1..Len(pl) :
                    NotFiller(pl[k]) =>
                       /\ Cardinality(BreakAfter(pl, k)) <= Min(2, Cardinality(FillerPool))
                       /\ \A i, j \in BreakAfter(pl, k) : pl[i] = pl[j] => i = j
                       /\ \A i \in BreakAfter(pl, k) : pl[i] \in FillerPool
              /\ Len(main) <= Len(pl)
              /\ Len(pl) <= 3 * Len(main)
              /\ ch.rotation # "random" =>
                    \A k \in 1..(Len(main) - 1) : PathKey(main[k]) <= PathKey(main[k + 1])

\* C11 witness: c1 has filler on and a pool of three clips; its playlist
\* has two main entries or more, one followed by two clips, another by
\* none
C11_Witness ==
    /\ "c1" \in DOMAIN PLAYLISTS
    /\ CommercialsOn(CHANNELS[1])
    /\ Cardinality(FillerPool) = 3
    /\ \E a, b \in 1..Len(PLAYLISTS["c1"]) :
          /\ NotFiller(PLAYLISTS["c1"][a]) /\ NotFiller(PLAYLISTS["c1"][b])
          /\ Cardinality(BreakAfter(PLAYLISTS["c1"], a)) = 2
          /\ BreakAfter(PLAYLISTS["c1"], b) = {}

\* C14 as stated: once a get_now_playing call on a channel has resolved
\* every duration of its playlist, a later get_now_playing call on that
\* channel runs no ffprobe, whatever the playlists and the calls in
\* between
C14_AsStated ==
    \A th \in DOMAIN thr : thr[th].warm => thr[th].probes = 0

\* the playlists of all channels together have no more distinct paths
\* than the cache has room for
AllPathsFit == Cardinality(PlaylistPaths) <= CacheSize

\* C14 amended: when the playlists of all channels together hold no more
\* distinct paths than the cache holds entries, then once a
\* get_now_playing call on a channel has resolved every duration of its
\* playlist, every later get_now_playing call on that channel takes all
\* its durations from the cache and runs no ffprobe, under any
\* interleaving with calls on other channels
C14_WarmCallsHitWhenPathsFit ==
    \A th \in DOMAIN thr :
        (thr[th].warm /\ AllPathsFit) =>
            /\ thr[th].probes = 0
            /\ thr[th].pc # "probe"
            /\ Range(thr[th].files) \subseteq CacheKeys

\* C14 witness: a later call on c1 has resolved its playlist without a
\* run of ffprobe while the cache is full, the other channel resolved and
\* cached too
C14_Witness ==
    \E th \in DOMAIN thr :
        /\ thr[th].warm /\ AllPathsFit
        /\ thr[th].ch = "c1"
        /\ thr[th].pc = "done"
        /\ thr[th].res.kind = "playing"
        /\ thr[th].probes = 0
        /\ "c2" \in resolved
        /\ Len(cache) = CacheSize

\* an entry that enters the cache is the value a get_duration call for
\* its path returns in that step
EntriesComeFromCalls ==
    \A x \in KeysOf(cache') \ KeysOf(cache) :
        \E th \in DOMAIN thr :
            /\ DurationReturns(th)
            /\ CurrentPath(th) = x
            /\ thr'[th].durs[Len(thr'[th].durs)] = cache'[PosIn(cache', x)][2]

\* every entry holds what ffprobe gives for its path, and stays as it is
\* while it is in the cache
EntriesHoldProbeValue ==
    \A k \in 1..Len(cache) : cache[k][2] = ProbeValue(cache[k][1])

\* C16: under any interleaving of concurrent get_duration calls, misses
\* of several threads for one uncached path included, the cache keeps at
\* most one entry per path and at most CacheSize entries, and the value
\* cached for a path is one that a get_duration call for that path
\* returned
C16_CacheNeverCorrupted ==
    /\ []CacheWellFormed
    /\ []EntriesHoldProbeValue
    /\ [][EntriesComeFromCalls]_vars

\* C16 witness: two threads missed on the same path; one has run ffprobe
\* and stored the result, the other is still at its own run of ffprobe
C16_Witness ==
    \E a, b \in DOMAIN thr :
        /\ a # b
        /\ thr[a].pc = "probe"
        /\ CurrentPath(a) \in CacheKeys
        /\ thr[b].probes >= 1
        /\ CurrentPath(a) \in Range(thr[b].files)

-----------------------------------------------------------------------------
(* Progress of the calls, stated for SpecLive *)

\* C13: every get_duration call eventually returns, a run of ffprobe that
\* never exits counting as a failure (the fallback), and so every
\* get_now_playing call eventually returns too
C13_EveryCallReturns ==
    \A th \in {1} : (thr[th].pc # "idle") ~> (thr[th].pc = "done")

-----------------------------------------------------------------------------
(* The life of the PLAYLISTS table, stated for SpecBuild *)

\* the table holds the playlists of the channels the loop has passed
BuiltSoFar ==
    /\ boot <= Len(CHANNELS)
    /\ DOMAIN PLAYLISTS = {CHANNELS[k].id : k \in 1..boot}

\* a step that changes the table or the loop position is the loop's next
\* pass: it stores the playlist of the next channel and leaves the others
BuildStep ==
    (boot' # boot \/ PLAYLISTS' # PLAYLISTS) =>
        /\ boot < Len(CHANNELS)
        /\ boot' = boot + 1
        /\ CHANNELS[boot + 1].id \notin DOMAIN PLAYLISTS
        /\ DOMAIN PLAYLISTS' = DOMAIN PLAYLISTS \cup {CHANNELS[boot + 1].id}
        /\ \A id \in DOMAIN PLAYLISTS : PLAYLISTS'[id] = PLAYLISTS[id]

\* C17: build_playlist runs once for each configured channel, at
\* start-up, and after start-up no operation (get_now_playing,
\* get_duration, get_file_metadata, get_next_show) changes PLAYLISTS: the
\* playlist stored for a channel is the same in every later state
C17_PlaylistsBuiltOnceThenFixed ==
    /\ []BuiltSoFar
    /\ [][BuildStep]_vars
    /\ [][Booted => PLAYLISTS' = PLAYLISTS]_vars

\* C17 witness: after start-up c1 has a playlist with filler in it, a
\* get_now_playing call has resolved it, and a get_next_show call has
\* returned
C17_Witness ==
    /\ Booted
    /\ "c1" \in resolved
    /\ \E k \in 1..Len(PLAYLISTS["c1"]) : IsFiller(PLAYLISTS["c1"][k])
    /\ \E th \in DOMAIN thr : thr[th].pc = "done" /\ thr[th].op = "next"

-----------------------------------------------------------------------------
(* Properties of stable_shuffle, stated for SpecShuffle *)

Shuffled(th) == thr[th].pc = "done" /\ thr[th].op = "shuffle"

\* the list returned has the length of the list given and every element
\* as often
ShuffleIsPermutation ==
    \A th \in DOMAIN thr :
        Shuffled(th) =>
            /\ Len(thr[th].out) = Len(thr[th].files)
            /\ \A x \in Range(thr[th].out) \cup Range(thr[th].files) :
                  CountIn(thr[th].out, x) = CountIn(thr[th].files, x)

\* two calls with the same list and the same seed return the same order
ShuffleIsDeterministic ==
    \A a, b \in DOMAIN thr :
        (/\ Shuffled(a) /\ Shuffled(b)
         /\ thr[a].files = thr[b].files
         /\ thr[a].ch = thr[b].ch) => thr[a].out = thr[b].out

\* the call leaves the list it was given as it was
ShuffleKeepsInput ==
    \A th \in DOMAIN thr :
        (thr[th].pc = "shuffle" /\ thr'[th].pc = "done") => thr'[th].files = thr[th].files

-----------------------------------------------------------------------------
(* Concurrent queries, stated for SpecConc *)

SameInstantSameAnswer ==
    \A a, b \in DOMAIN thr :
        (/\ thr[a].pc = "done" /\ thr[a].op = "now"
         /\ thr[b].pc = "done" /\ thr[b].op = "now"
         /\ thr[a].ch = thr[b].ch
         /\ thr[a].res.t = thr[b].res.t) => Answer(thr[a].res) = Answer(thr[b].res)

\* a step of a request thread leaves everything but the cache (and the
\* thread's own locals) as it was
QueryFrame ==
    (\E th \in DOMAIN thr : thr'[th] # thr[th]) =>
        UNCHANGED <<PLAYLISTS, CHANNELS, dirs, probeOut, rng, boot>>

\* C7: two get_now_playing calls for one channel that read the same
\* instant return the same outcome, current file, offset and next file,
\* however their steps interleave with hits, misses and evictions of the
\* cache; and no step of a call changes PLAYLISTS or the configuration
C7_ConsistentAcrossCalls == []SameInstantSameAnswer /\ [][QueryFrame]_vars

\* C7 witness: two calls for c1 at one instant have both answered, one
\* served from the cache alone, the other after running ffprobe itself
C7_Witness ==
    \E a, b \in DOMAIN thr :
        /\ thr[a].pc = "done" /\ thr[a].op = "now" /\ thr[a].ch = "c1"
        /\ thr[b].pc = "done" /\ thr[b].op = "now" /\ thr[b].ch = "c1"
        /\ thr[a].res.t = thr[b].res.t
        /\ thr[a].res.kind = "playing"
        /\ thr[a].probes = 0
        /\ thr[b].probes = Len(thr[b].files)

====
